---- MODULE Spec2Model ----
(***************************************************************************)
(* A model of the unstorage S3 driver (src/src/index.ts): the adapter      *)
(* returned by defineDriver, the bucket it talks to through s3.send, and   *)
(* a second adapter instance with another prefix writing to the same       *)
(* bucket.                                                                 *)
(*                                                                         *)
(* Strings are sequences of one-character strings, so that normalizeKey,   *)
(* joinKeys, startsWith and substring are computed character by character. *)
(* An absent string (undefined) and the empty string are both <<>>: the    *)
(* code tests them by truthiness only. Item values are sequences of code   *)
(* points, bodies are sequences of bytes.                                  *)
(***************************************************************************)
EXTENDS Integers, Sequences, FiniteSets, TLC

VARIABLES
    optsBucket,         \* opts.bucket: "" when unset
    optsPrefix,         \* opts.prefix: <<>> when unset
    objects,            \* the bucket: objects in the store's listing order
    pageSizes,          \* the page sizes the store may cut a listing into
    pc,                 \* position of the adapter's call in flight
    call,               \* the public operation in flight or last completed
    resolvedBase,       \* getKeys: the Prefix of the listing command
    keys,               \* getKeys: const keys; clear: const keys
    continuationToken,  \* getKeys: let continuationToken
    i,                  \* clear: the loop index
    sent,               \* the s3.send calls of this operation, with responses
    result,             \* how the last operation ended
    before,             \* the bucket when the operation in flight began
    written             \* <<object key, text>> of setItem calls not overwritten since

vars == <<optsBucket, optsPrefix, objects, pageSizes, pc, call, resolvedBase,
          keys, continuationToken, i, sent, result, before, written>>

----------------------------------------------------------------------------
(* Bounds of the model. *)

\* The store cuts listings into pages of 1..MaxPage keys.
MaxPage == 2

----------------------------------------------------------------------------
(* Strings. *)

\* Code unit of each character used, for the store's (UTF-8 binary) key order.
Code(c) ==
    CASE c = "/" -> 47
      [] c = "0" -> 48 [] c = "1" -> 49 [] c = "2" -> 50 [] c = "3" -> 51
      [] c = "4" -> 52 [] c = "5" -> 53 [] c = "6" -> 54 [] c = "7" -> 55
      [] c = "8" -> 56 [] c = "9" -> 57
      [] c = ":" -> 58
      [] c = "?" -> 63
      [] c = "\\" -> 92
      [] c = "a" -> 97
      [] c = "b" -> 98
      [] c = "k" -> 107
      [] c = "n" -> 110
      [] c = "s" -> 115
      [] c = "x" -> 120

MinOf(S) == CHOOSE x \in S : \A y \in S : x <= y

\* String.prototype.startsWith
StartsWith(s, p) ==
    /\ Len(p) <= Len(s)
    /\ \A j \in 1..Len(p) : s[j] = p[j]

\* String.prototype.substring(n): the string without its first n characters
Substring(s, n) == SubSeq(s, n + 1, Len(s))

\* a sorts strictly before b in the bucket's listing order
LexLess(a, b) ==
    \E j \in 1..(Len(a) + 1) :
        /\ j <= Len(b)
        /\ \A m \in 1..(j - 1) : a[m] = b[m]
        /\ (j = Len(a) + 1 \/ Code(a[j]) < Code(b[j]))

----------------------------------------------------------------------------
(* Key normalisation of the framework (unstorage), imported at index.ts:12:
     normalizeKey(key) = !key ? "" :
        key.split("?")[0].replace(/[/\\]/g, ":").replace(/:+/g, ":")
           .replace(/^:|:$/g, "")
     joinKeys(...keys) = normalizeKey(keys.join(":"))                      *)

\* key.split("?")[0]
BeforeQuery(key) ==
    IF \E j \in 1..Len(key) : key[j] = "?"
    THEN SubSeq(key, 1, MinOf({j \in 1..Len(key) : key[j] = "?"}) - 1)
    ELSE key

\* .replace(/[/\\]/g, ":")
SlashesToColons(s) == [j \in 1..Len(s) |-> IF s[j] \in {"/", "\\"} THEN ":" ELSE s[j]]

\* the positions of s that are not a colon following a colon
SqueezedPositions(s) ==
    SelectSeq([j \in 1..Len(s) |-> j], LAMBDA j : ~(s[j] = ":" /\ j > 1 /\ s[j - 1] = ":"))

\* the characters of s at the positions of a sequence
Pick(s, at) == [j \in 1..Len(at) |-> s[at[j]]]

\* .replace(/:+/g, ":")
SqueezeColons(s) == Pick(s, SqueezedPositions(s))

\* .replace(/^:|:$/g, ""): a leading colon goes and a trailing colon goes
TrimColons(s) ==
    SubSeq(s, IF Len(s) > 0 /\ s[1] = ":" THEN 2 ELSE 1,
              IF Len(s) > 0 /\ s[Len(s)] = ":" THEN Len(s) - 1 ELSE Len(s))

normalizeKey(key) == TrimColons(SqueezeColons(SlashesToColons(BeforeQuery(key))))

joinKeys(a, b) == normalizeKey(a \o <<":">> \o b)

----------------------------------------------------------------------------
(* The adapter's key mapping. *)

\* const resolvedPrefix = opts.prefix ? normalizeKey(opts.prefix) : ''
resolvedPrefixOf(prefix) == IF prefix # <<>> THEN normalizeKey(prefix) ELSE <<>>

resolvedPrefix == resolvedPrefixOf(optsPrefix)

\* r of an adapter whose resolved prefix is rp
rOf(rp, key) == IF rp # <<>> THEN joinKeys(rp, normalizeKey(key)) ELSE normalizeKey(key)

\* rPrefix of an adapter whose resolved prefix is rp
rPrefixOf(rp, key) ==
    IF key = <<>> THEN <<>>
    ELSE IF rp = <<>> THEN key
    ELSE IF StartsWith(key, rp) THEN Substring(key, Len(rp)) ELSE key

r(key) == rOf(resolvedPrefix, key)

rPrefix(key) == rPrefixOf(resolvedPrefix, key)

----------------------------------------------------------------------------
(* Values. *)

RECURSIVE Utf8Encode(_)
\* the bytes the SDK sends for a string Body
Utf8Encode(text) ==
    IF text = <<>> THEN <<>>
    ELSE LET cp == Head(text)
         IN  (IF cp < 128 THEN <<cp>>
              ELSE <<192 + (cp \div 64), 128 + (cp % 64)>>) \o Utf8Encode(Tail(text))

RECURSIVE Utf8Decode(_)
\* Buffer.toString('utf-8'): an ill-formed byte decodes to U+FFFD
Utf8Decode(bytes) ==
    IF bytes = <<>> THEN <<>>
    ELSE LET b == Head(bytes)
         IN  IF b < 128 THEN <<b>> \o Utf8Decode(Tail(bytes))
             ELSE IF /\ b >= 194 /\ b < 224 /\ Len(bytes) >= 2
                     /\ bytes[2] >= 128 /\ bytes[2] < 192
                  THEN <<(b - 192) * 64 + (bytes[2] - 128)>> \o Utf8Decode(Tail(Tail(bytes)))
                  ELSE <<65533>> \o Utf8Decode(Tail(bytes))

\* streamToString: UTF-8 text of the response body ('' without a body)
streamToString(body) == Utf8Decode(body)

\* streamToBuffer: the bytes of the response body
streamToBuffer(body) == body

RECURSIVE DigitsValue(_)
DigitsValue(text) ==
    IF text = <<>> THEN 0
    ELSE 10 * DigitsValue(SubSeq(text, 1, Len(text) - 1)) + (text[Len(text)] - 48)

\* JSON.parse on the texts of the model: a decimal integer parses, anything
\* else throws
JsonParses(text) ==
    /\ text # <<>>
    /\ \A j \in 1..Len(text) : text[j] >= 48 /\ text[j] <= 57
    /\ (Len(text) > 1 => text[1] # 48)

JsonParse(text) == [type |-> "number", n |-> DigitsValue(text)]

StringValue(text) == [type |-> "string", text |-> text]
BufferValue(bytes) == [type |-> "buffer", bytes |-> bytes]
BooleanValue(b) == [type |-> "boolean", b |-> b]
KeysValue(ks) == [type |-> "keys", keys |-> ks]
NullValue == [type |-> "null"]
Undefined == [type |-> "undefined"]

----------------------------------------------------------------------------
(* The bucket behind s3.send. A request names the bucket; the store       *)
(* answers a request for another bucket (or none) and a faulty request    *)
(* with an error, and a failed request changes nothing.                   *)

BucketName == "test-bucket"

HasObject(key) == \E j \in 1..Len(objects) : objects[j].Key = key

ObjectAt(key) == objects[CHOOSE j \in 1..Len(objects) : objects[j].Key = key]

Remote(req, fault) == ~fault /\ req.Bucket = BucketName

\* the bucket after a put: the object replaces one of the same key and sits
\* at its place in the listing order
PutInto(objs, obj) ==
    LET rest == SelectSeq(objs, LAMBDA o : o.Key # obj.Key)
        n    == Cardinality({j \in 1..Len(rest) : LexLess(rest[j].Key, obj.Key)})
    IN  SubSeq(rest, 1, n) \o <<obj>> \o SubSeq(rest, n + 1, Len(rest))

\* the bucket after deleting the keys of a set
DeleteFrom(objs, ks) == SelectSeq(objs, LAMBDA o : o.Key \notin ks)

HeadObject(req, fault) ==
    IF ~Remote(req, fault) THEN [error |-> "Other"]
    ELSE IF HasObject(req.Key) THEN [error |-> "none"]
    ELSE [error |-> "NotFound"]

GetObject(req, fault) ==
    IF ~Remote(req, fault) THEN [error |-> "Other"]
    ELSE IF HasObject(req.Key)
         THEN [error |-> "none", Body |-> ObjectAt(req.Key).Body,
               ContentType |-> ObjectAt(req.Key).ContentType]
    ELSE [error |-> "NoSuchKey"]

PutObject(req, fault) ==
    IF ~Remote(req, fault) THEN [error |-> "Other"] ELSE [error |-> "none"]

DeleteObject(req, fault) ==
    IF ~Remote(req, fault) THEN [error |-> "Other"] ELSE [error |-> "none"]

\* one page of at most size keys: those with the Prefix that sort after the
\* token; a token is returned while keys remain
ListObjectsV2(req, size, fault) ==
    IF ~Remote(req, fault) THEN [error |-> "Other"]
    ELSE LET all   == SelectSeq(objects, LAMBDA o : StartsWith(o.Key, req.Prefix))
             done  == IF req.ContinuationToken = <<>> THEN 0
                      ELSE Cardinality({j \in 1..Len(all) :
                               ~LexLess(req.ContinuationToken, all[j].Key)})
             last  == IF done + size < Len(all) THEN done + size ELSE Len(all)
         IN  [error |-> "none",
              Contents |-> [j \in 1..(last - done) |-> all[done + j].Key],
              NextContinuationToken |-> IF last < Len(all) THEN all[last].Key ELSE <<>>]

\* outcome "ok": every key deleted; "errors": the first key is refused and
\* reported in Errors, the others are deleted; "fault": the call fails
DeleteObjects(req, outcome) ==
    IF ~Remote(req, outcome = "fault") THEN [error |-> "Other"]
    ELSE [error |-> "none",
          Errors |-> IF outcome = "errors" THEN <<req.Objects[1]>> ELSE <<>>]

\* the bucket after a request got the response res
StoreAfter(req, res) ==
    IF res.error # "none" THEN objects
    ELSE CASE req.cmd = "PutObject" ->
                PutInto(objects, [Key |-> req.Key, Body |-> req.Body,
                                  ContentType |-> req.ContentType])
           [] req.cmd = "DeleteObject" -> DeleteFrom(objects, {req.Key})
           [] req.cmd = "DeleteObjects" ->
                DeleteFrom(objects, {req.Objects[j] : j \in 1..Len(req.Objects)}
                                      \ {res.Errors[j] : j \in 1..Len(res.Errors)})
           [] OTHER -> objects

----------------------------------------------------------------------------
(* The adapter. One public operation is in flight at a time; pc = "idle"  *)
(* between operations, "listing" inside the loop of getKeys, "deleting"   *)
(* inside the loop of clear and "returned" when the operation has ended   *)
(* and its outcome is in result.                                          *)

MAX_DELETE_KEYS == 1000

\* createRequiredError(DRIVER_NAME, 'bucket')
createRequiredError == [kind |-> "MissingRequiredOption", option |-> "bucket"]

\* createError(DRIVER_NAME, message): the message's text, the key or base it
\* names and the batch index it names (-1: none)
createError(text, key, index) ==
    [kind |-> "AdapterError", text |-> text, key |-> key, index |-> index]

Returned(value) == [kind |-> "ok", value |-> value]

NoResult == [kind |-> "none"]
NoCall == [op |-> "none", key |-> <<>>]

\* requireBucket() throws
requireBucketThrows == optsBucket = ""

Exchange(req, res) == [req |-> req, res |-> res]

\* an operation that ends within one step
Completes(op, key, log, res, objs, wr) ==
    /\ call' = [op |-> op, key |-> key]
    /\ sent' = log
    /\ result' = res
    /\ objects' = objs
    /\ written' = wr
    /\ before' = objects
    /\ pc' = "returned"
    /\ UNCHANGED <<optsBucket, optsPrefix, pageSizes, resolvedBase, keys,
                   continuationToken, i>>

\* the caller takes the outcome; the locals of the operation are gone
return ==
    /\ pc = "returned"
    /\ pc' = "idle"
    /\ call' = NoCall
    /\ result' = NoResult
    /\ sent' = <<>>
    /\ before' = <<>>
    /\ resolvedBase' = <<>>
    /\ keys' = <<>>
    /\ continuationToken' = <<>>
    /\ i' = 0
    /\ UNCHANGED <<optsBucket, optsPrefix, objects, pageSizes, written>>

Untouched(key) == {w \in written : w[1] # key}

\* hasItem testing for the error name of GetObject
hasItemOutcome_NoSuchKey(key, res) ==
    IF res.error = "none" THEN Returned(BooleanValue(TRUE))
    ELSE IF res.error = "NoSuchKey" THEN Returned(BooleanValue(FALSE))
    ELSE createError("Error checking key", r(key), -1)

\* what hasItem makes of the response to its HeadObject
hasItemOutcome(key, res) ==
    IF res.error = "none" THEN Returned(BooleanValue(TRUE))
    ELSE IF res.error = "NotFound" THEN Returned(BooleanValue(FALSE))
    ELSE createError("Error checking key", r(key), -1)

hasItem(key) ==
    /\ pc = "idle"
    /\ IF requireBucketThrows
       THEN Completes("hasItem", key, <<>>, createRequiredError, objects, written)
       ELSE \E fault \in BOOLEAN :
            LET req == [cmd |-> "HeadObject", Bucket |-> optsBucket, Key |-> r(key)]
                res == HeadObject(req, fault)
            IN  Completes("hasItem", key, <<Exchange(req, res)>>,
                    hasItemOutcome(key, res), objects, written)

\* what getItem returns for a response that carries an object
getItemValue(res) ==
    LET value == streamToString(res.Body)
    IN  IF res.ContentType = "application/json"
        THEN IF JsonParses(value) THEN JsonParse(value) ELSE StringValue(value)
        ELSE StringValue(value)

\* what getItem makes of the response to its GetObject
getItemOutcome(key, res) ==
    IF res.error = "none" THEN Returned(getItemValue(res))
    ELSE IF res.error = "NoSuchKey" THEN Returned(NullValue)
    ELSE createError("Error getting key", r(key), -1)

getItem(key) ==
    /\ pc = "idle"
    /\ IF requireBucketThrows
       THEN Completes("getItem", key, <<>>, createRequiredError, objects, written)
       ELSE \E fault \in BOOLEAN :
            LET req == [cmd |-> "GetObject", Bucket |-> optsBucket, Key |-> r(key)]
                res == GetObject(req, fault)
            IN  Completes("getItem", key, <<Exchange(req, res)>>,
                    getItemOutcome(key, res), objects, written)

\* what getItemRaw makes of the response to its GetObject
getItemRawOutcome(key, res) ==
    IF res.error = "none" THEN Returned(BufferValue(streamToBuffer(res.Body)))
    ELSE IF res.error = "NoSuchKey" THEN Returned(NullValue)
    ELSE createError("Error getting raw key", r(key), -1)

getItemRaw(key) ==
    /\ pc = "idle"
    /\ IF requireBucketThrows
       THEN Completes("getItemRaw", key, <<>>, createRequiredError, objects, written)
       ELSE \E fault \in BOOLEAN :
            LET req == [cmd |-> "GetObject", Bucket |-> optsBucket, Key |-> r(key)]
                res == GetObject(req, fault)
            IN  Completes("getItemRaw", key, <<Exchange(req, res)>>,
                    getItemRawOutcome(key, res), objects, written)

\* setItem tagging its text as JSON
setItemCommand_Json(key, value) ==
    [cmd |-> "PutObject", Bucket |-> optsBucket, Key |-> r(key),
     Body |-> Utf8Encode(value), ContentType |-> "application/json"]

\* the command setItem sends
setItemCommand(key, value) ==
    [cmd |-> "PutObject", Bucket |-> optsBucket, Key |-> r(key),
     Body |-> Utf8Encode(value), ContentType |-> "text/plain"]

setItem(key, value) ==
    /\ pc = "idle"
    /\ IF requireBucketThrows
       THEN Completes("setItem", key, <<>>, createRequiredError, objects, written)
       ELSE \E fault \in BOOLEAN :
            LET req == setItemCommand(key, value)
                res == PutObject(req, fault)
            IN  Completes("setItem", key, <<Exchange(req, res)>>,
                    IF res.error = "none" THEN Returned(Undefined)
                    ELSE createError("Error setting key", r(key), -1),
                    StoreAfter(req, res),
                    IF res.error = "none"
                    THEN Untouched(req.Key) \cup {<<req.Key, value>>}
                    ELSE Untouched(req.Key))

setItemRaw(key, value) ==
    /\ pc = "idle"
    /\ \E fault \in BOOLEAN :
            LET req == [cmd |-> "PutObject", Bucket |-> optsBucket, Key |-> r(key),
                        Body |-> value, ContentType |-> "application/octet-stream"]
                res == PutObject(req, fault)
            IN  Completes("setItemRaw", key, <<Exchange(req, res)>>,
                    IF res.error = "none" THEN Returned(Undefined)
                    ELSE createError("Error setting raw key", r(key), -1),
                    StoreAfter(req, res), Untouched(req.Key))

removeItem(key) ==
    /\ pc = "idle"
    /\ \E fault \in BOOLEAN :
            LET req == [cmd |-> "DeleteObject", Bucket |-> optsBucket, Key |-> r(key)]
                res == DeleteObject(req, fault)
            IN  Completes("removeItem", key, <<Exchange(req, res)>>,
                    IF res.error = "none" THEN Returned(Undefined)
                    ELSE createError("Error removing key", r(key), -1),
                    StoreAfter(req, res), Untouched(req.Key))

\* getKeys up to its loop; clear begins by calling it
EnterGetKeys(op, base) ==
    /\ pc = "idle"
    /\ pc' = "listing"
    /\ call' = [op |-> op, key |-> base]
    /\ resolvedBase' = r(base)
    /\ keys' = <<>>
    /\ continuationToken' = <<>>
    /\ i' = 0
    /\ sent' = <<>>
    /\ result' = NoResult
    /\ before' = objects
    /\ UNCHANGED <<optsBucket, optsPrefix, objects, pageSizes, written>>

getKeys(base) == EnterGetKeys("getKeys", base)

clear(base) == EnterGetKeys("clear", base)

\* response.Contents.map(item => rPrefix(item.Key)).filter(Boolean)
pageKeys(contents) ==
    SelectSeq([j \in 1..Len(contents) |-> rPrefix(contents[j])], LAMBDA k : k # <<>>)

\* getKeys reading one page only
nextToken_None(res) == <<>>

\* the token the loop of getKeys carries into its next round
nextToken(res) == res.NextContinuationToken

\* one round of the loop of getKeys: a listing request and what follows its
\* response; after the last page getKeys returns, and clear goes on to its
\* own loop or returns at once when there are no keys
getKeysPage ==
    /\ pc = "listing"
    /\ \E size \in pageSizes, fault \in BOOLEAN :
        LET req == [cmd |-> "ListObjectsV2", Bucket |-> optsBucket,
                    Prefix |-> resolvedBase, ContinuationToken |-> continuationToken]
            res == ListObjectsV2(req, size, fault)
            all == keys \o pageKeys(res.Contents)
        IN  /\ sent' = Append(sent, Exchange(req, res))
            /\ IF res.error # "none"
               THEN /\ pc' = "returned"
                    /\ result' = createError("Error listing keys with base", resolvedBase, -1)
                    /\ UNCHANGED <<keys, continuationToken>>
               ELSE /\ keys' = all
                    /\ continuationToken' = nextToken(res)
                    /\ IF continuationToken' # <<>>
                       THEN pc' = "listing" /\ result' = NoResult
                       ELSE IF call.op = "getKeys"
                       THEN pc' = "returned" /\ result' = Returned(KeysValue(all))
                       ELSE IF Len(all) = 0
                       THEN pc' = "returned" /\ result' = Returned(Undefined)
                       ELSE pc' = "deleting" /\ result' = NoResult
    /\ UNCHANGED <<optsBucket, optsPrefix, objects, pageSizes, call, resolvedBase,
                   i, before, written>>

\* a slice that takes the key at its end index too
keysToDelete_Inclusive ==
    SubSeq(keys, i + 1, IF i + MAX_DELETE_KEYS + 1 < Len(keys)
                        THEN i + MAX_DELETE_KEYS + 1 ELSE Len(keys))

\* keys.slice(i, i + MAX_DELETE_KEYS)
keysToDelete ==
    SubSeq(keys, i + 1, IF i + MAX_DELETE_KEYS < Len(keys) THEN i + MAX_DELETE_KEYS
                        ELSE Len(keys))

\* keysToDelete.map(key => ({ Key: r(key) }))
deleteCommand ==
    [cmd |-> "DeleteObjects", Bucket |-> optsBucket,
     Objects |-> [j \in 1..Len(keysToDelete) |-> r(keysToDelete[j])],
     Quiet |-> FALSE]

\* clear giving up on a response that reports per-object errors
clearStops_OnErrors(res) ==
    \/ res.error # "none"
    \/ res.Errors # <<>>
    \/ ~(i + MAX_DELETE_KEYS < Len(keys))

\* whether the loop of clear stops after the response res
clearStops(res) == res.error # "none" \/ ~(i + MAX_DELETE_KEYS < Len(keys))

\* one round of the loop of clear
clearBatch ==
    /\ pc = "deleting"
    /\ i < Len(keys)
    /\ \E outcome \in {"ok", "errors", "fault"} :
        LET req == deleteCommand
            res == DeleteObjects(req, outcome)
        IN  /\ sent' = Append(sent, Exchange(req, res))
            /\ objects' = StoreAfter(req, res)
            /\ written' = {w \in written :
                              \A j \in 1..Len(req.Objects) : req.Objects[j] # w[1]}
            /\ IF res.error # "none"
               THEN /\ result' = createError("Error clearing keys with base", call.key, i)
                    /\ UNCHANGED i
               ELSE /\ i' = i + MAX_DELETE_KEYS
                    /\ result' = IF clearStops(res) THEN Returned(Undefined) ELSE NoResult
            /\ pc' = IF clearStops(res) THEN "returned" ELSE "deleting"
    /\ UNCHANGED <<optsBucket, optsPrefix, pageSizes, call, resolvedBase, keys,
                   continuationToken, before>>

----------------------------------------------------------------------------
(* A second adapter on the same bucket, constructed with another prefix.  *)
(* Its operations run between those of the first and always succeed.      *)

OtherPrefix == <<"n", "s", "x">>

OtherKeys == {<<"a", "/", "1">>}

otherSetItem(key, value) ==
    /\ pc = "idle"
    /\ optsBucket = BucketName
    /\ LET obj == [Key |-> rOf(resolvedPrefixOf(OtherPrefix), key),
                   Body |-> Utf8Encode(value), ContentType |-> "text/plain"]
       IN  /\ objects' = PutInto(objects, obj)
           /\ written' = Untouched(obj.Key)
    /\ UNCHANGED <<optsBucket, optsPrefix, pageSizes, pc, call, resolvedBase, keys,
                   continuationToken, i, sent, result, before>>

otherRemoveItem(key) ==
    /\ pc = "idle"
    /\ optsBucket = BucketName
    /\ LET k == rOf(resolvedPrefixOf(OtherPrefix), key)
       IN  /\ HasObject(k)
           /\ objects' = DeleteFrom(objects, {k})
           /\ written' = Untouched(k)
    /\ UNCHANGED <<optsBucket, optsPrefix, pageSizes, pc, call, resolvedBase, keys,
                   continuationToken, i, sent, result, before>>

----------------------------------------------------------------------------
(* Inputs. *)

\* application keys handed to the adapter
AppKeys == {<<"a", "/", "1">>, <<"a", "/", "2">>, <<"b", "/", "1">>}

\* bases handed to getKeys and clear
Bases == {<<>>, <<"a">>, <<"b", "/">>}

\* prefixes the adapter is constructed with
Prefixes == {<<>>, <<"n", "s", "/">>}

\* texts written by setItem: "1" and "é"
Texts == {<<49>>, <<233>>}

\* texts written through the second adapter: "1"
OtherTexts == {<<49>>}

\* buffers written by setItemRaw: one byte that is no UTF-8
Buffers == {<<255>>}

----------------------------------------------------------------------------
(* The adapter after defineDriver, on an empty bucket. *)

Init ==
    /\ optsBucket \in {"", BucketName}
    /\ optsPrefix \in Prefixes
    /\ objects = <<>>
    /\ pageSizes = 1..MaxPage
    /\ pc = "idle"
    /\ call = NoCall
    /\ resolvedBase = <<>>
    /\ keys = <<>>
    /\ continuationToken = <<>>
    /\ i = 0
    /\ sent = <<>>
    /\ result = NoResult
    /\ before = <<>>
    /\ written = {}

Next ==
    \/ \E key \in AppKeys : hasItem(key)
    \/ \E key \in AppKeys : getItem(key)
    \/ \E key \in AppKeys : getItemRaw(key)
    \/ \E key \in AppKeys, value \in Texts : setItem(key, value)
    \/ \E key \in AppKeys, value \in Buffers : setItemRaw(key, value)
    \/ \E key \in AppKeys : removeItem(key)
    \/ \E base \in Bases : getKeys(base)
    \/ \E base \in Bases : clear(base)
    \/ getKeysPage
    \/ clearBatch
    \/ return
    \/ \E key \in OtherKeys, value \in OtherTexts : otherSetItem(key, value)
    \/ \E key \in OtherKeys : otherRemoveItem(key)

Spec == Init /\ [][Next]_vars

----------------------------------------------------------------------------
(* Listing alone: getKeys on each bucket that writes through the two       *)
(* adapters can leave behind.                                              *)

RECURSIVE StoreOf(_)
\* the bucket holding a text under each object key of a set
StoreOf(S) ==
    IF S = {} THEN <<>>
    ELSE LET k == CHOOSE k \in S : TRUE
         IN  PutInto(StoreOf(S \ {k}),
                     [Key |-> k, Body |-> Utf8Encode(<<49>>), ContentType |-> "text/plain"])

InitListing ==
    /\ optsBucket = BucketName
    /\ optsPrefix \in Prefixes
    /\ \E own \in SUBSET AppKeys, other \in SUBSET OtherKeys :
         objects = StoreOf({r(k) : k \in own}
                           \cup {rOf(resolvedPrefixOf(OtherPrefix), k) : k \in other})
    /\ pageSizes = 1..MaxPage
    /\ pc = "idle"
    /\ call = NoCall
    /\ resolvedBase = <<>>
    /\ keys = <<>>
    /\ continuationToken = <<>>
    /\ i = 0
    /\ sent = <<>>
    /\ result = NoResult
    /\ before = <<>>
    /\ written = {}

NextListing ==
    \/ \E base \in Bases : getKeys(base)
    \/ getKeysPage
    \/ return

\* the response to a listing request reaches the loop of getKeys
SpecListing == InitListing /\ [][NextListing]_vars /\ WF_vars(getKeysPage)

----------------------------------------------------------------------------
(* The adapter on a bucket that holds many keys: clear in several batches. *)

\* how many keys the bucket holds at the start
BulkSizes == {0, 1, 999, 1000, 1001, 1999, 2000, 2001, 2500}

DigitChar(d) == <<"0", "1", "2", "3", "4", "5", "6", "7", "8", "9">>[d + 1]

\* the n-th application key: k0001, k0002, ...
BulkKey(n) ==
    <<"k", DigitChar(n \div 1000), DigitChar((n \div 100) % 10),
      DigitChar((n \div 10) % 10), DigitChar(n % 10)>>

\* the store answers a listing with pages of 1000 keys
InitBulk ==
    /\ optsBucket = BucketName
    /\ optsPrefix \in Prefixes
    /\ \E n \in BulkSizes :
         objects = [j \in 1..n |-> [Key |-> r(BulkKey(j)), Body |-> Utf8Encode(<<49>>),
                                     ContentType |-> "text/plain"]]
    /\ pageSizes = {1000}
    /\ pc = "idle"
    /\ call = NoCall
    /\ resolvedBase = <<>>
    /\ keys = <<>>
    /\ continuationToken = <<>>
    /\ i = 0
    /\ sent = <<>>
    /\ result = NoResult
    /\ before = <<>>
    /\ written = {}

NextBulk ==
    \/ clear(<<>>)
    \/ getKeysPage
    \/ clearBatch
    \/ return

SpecBulk == InitBulk /\ [][NextBulk]_vars

----------------------------------------------------------------------------
(* What the claims speak of. *)

ListExchanges == SelectSeq(sent, LAMBDA e : e.req.cmd = "ListObjectsV2")

DeleteExchanges == SelectSeq(sent, LAMBDA e : e.req.cmd = "DeleteObjects")

\* the object keys the listing responses of this operation returned
ListedKeys ==
    UNION {{e.res.Contents[j] : j \in 1..Len(e.res.Contents)} :
              e \in {ListExchanges[m] : m \in {m \in 1..Len(ListExchanges) :
                                                  ListExchanges[m].res.error = "none"}}}

\* the object keys a bulk-delete exchange removed
DeletedBy(e) ==
    {e.req.Objects[j] : j \in 1..Len(e.req.Objects)}
        \ {e.res.Errors[j] : j \in 1..Len(e.res.Errors)}

\* the object keys in the bucket
ObjectKeys == {objects[j].Key : j \in 1..Len(objects)}

\* the application keys of the model in normal form
NormalKeys == {normalizeKey(k) : k \in AppKeys}

\* the store holds objects written through this adapter only
OnlyOwnObjects == \A j \in 1..Len(objects) : \E k \in AppKeys : r(k) = objects[j].Key

\* the application key an object of this adapter was written under
AppKeyOf(objectKey) == CHOOSE k \in NormalKeys : r(k) = objectKey

\* the object key lies in the adapter's namespace and its application key
\* begins with the base
UnderBase(objectKey, base) ==
    IF resolvedPrefix = <<>> THEN StartsWith(objectKey, normalizeKey(base))
    ELSE /\ StartsWith(objectKey, resolvedPrefix \o <<":">>)
         /\ StartsWith(Substring(objectKey, Len(resolvedPrefix) + 1), normalizeKey(base))

RECURSIVE ConcatPages(_)
\* the keys getKeys gathers from a sequence of listing exchanges
ConcatPages(L) ==
    IF L = <<>> THEN <<>>
    ELSE pageKeys(Head(L).res.Contents) \o ConcatPages(Tail(L))

PublicOps == {"hasItem", "getItem", "getItemRaw", "setItem", "setItemRaw",
              "removeItem", "getKeys", "clear"}

----------------------------------------------------------------------------
\* C1: with bucket unset, every remote-issuing public operation fails with
\* MissingRequiredOption and sends no request to the store during that call.
C1_BucketUnsetFailsBeforeAnyRequest ==
    (optsBucket = "" /\ call.op \in PublicOps) =>
        /\ sent = <<>>
        /\ pc = "returned" => result = createRequiredError

\* C2: for every normalized application key k, fromObjectKey(toObjectKey(k))
\* = k when a prefix is configured, and toObjectKey(k) = normalize(k) when
\* none is.
C2_PrefixRoundTrip ==
    \A k \in NormalKeys :
        IF resolvedPrefix # <<>> THEN rPrefix(r(k)) = k ELSE r(k) = normalizeKey(k)

\* C3: with a prefix configured and a bucket holding only keys written
\* through the adapter, getKeys() with no base returns exactly the written
\* application keys, each once, in the store's listing order, whatever the
\* page sizes.
C3_GetKeysReturnsWrittenKeys ==
    (/\ pc = "returned" /\ call.op = "getKeys" /\ call.key = <<>>
     /\ result.kind = "ok" /\ resolvedPrefix # <<>> /\ OnlyOwnObjects) =>
        result.value.keys = [j \in 1..Len(objects) |-> AppKeyOf(objects[j].Key)]

\* C4: a clear(base) that ends with no remote failure and no per-object
\* error has removed exactly the objects whose application key is under
\* base, left every other object as it was, and asked to delete, for each
\* listed object, the very object key the listing returned.
C4_ClearRemovesExactlyBase ==
    (/\ pc = "returned" /\ call.op = "clear" /\ result.kind = "ok"
     /\ \A j \in 1..Len(DeleteExchanges) : DeleteExchanges[j].res.Errors = <<>>) =>
        /\ objects = SelectSeq(before, LAMBDA o : ~UnderBase(o.Key, call.key))
        /\ \A j \in 1..Len(DeleteExchanges) :
              \A m \in 1..Len(DeleteExchanges[j].req.Objects) :
                  DeleteExchanges[j].req.Objects[m] \in ListedKeys

\* C10: every key getKeys returns names an object of the adapter's own
\* namespace (an object exists at toObjectKey of it, so hasItem is true in
\* that store state), also when the bucket holds objects of an adapter with
\* another prefix; and clear asks to delete only keys the listing found.
C10_ListingStaysInNamespace ==
    /\ (pc = "returned" /\ call.op = "getKeys" /\ result.kind = "ok") =>
          \A j \in 1..Len(result.value.keys) : HasObject(r(result.value.keys[j]))
    /\ \A j \in 1..Len(DeleteExchanges) :
          \A m \in 1..Len(DeleteExchanges[j].req.Objects) :
              DeleteExchanges[j].req.Objects[m] \in ListedKeys

\* C5: when getKeys(base) yields n keys and no bulk delete fails, clear
\* sends exactly ceil(n/1000) bulk-delete requests of 1 to 1000 keys each,
\* which together are the key list in its order; none when n = 0.
C5_ClearBatches ==
    (/\ pc = "returned" /\ call.op = "clear" /\ result.kind = "ok"
     /\ \A j \in 1..Len(DeleteExchanges) : DeleteExchanges[j].res.error = "none") =>
        LET n == Cardinality({j \in 1..Len(before) : StartsWith(before[j].Key, r(call.key))})
        IN  /\ n = Len(keys)
            /\ Len(DeleteExchanges) = (n + 999) \div 1000
            /\ \A j \in 1..Len(DeleteExchanges) :
                  LET size == IF 1000 * j <= n THEN 1000 ELSE n - 1000 * (j - 1)
                  IN  /\ size >= 1 /\ size <= 1000
                      /\ DeleteExchanges[j].req.Objects =
                            [m \in 1..size |-> r(keys[1000 * (j - 1) + m])]

C5_Witness ==
    /\ pc = "returned" /\ call.op = "clear" /\ result.kind = "ok"
    /\ Len(keys) = 2500
    /\ Len(DeleteExchanges) = 3
    /\ \A j \in 1..3 : DeleteExchanges[j].res.error = "none"
    /\ Len(DeleteExchanges[1].req.Objects) = 1000
    /\ Len(DeleteExchanges[2].req.Objects) = 1000
    /\ Len(DeleteExchanges[3].req.Objects) = 500

\* C6: a bulk-delete call that fails makes clear raise an AdapterError
\* naming that batch's starting index; no bulk delete follows it and what
\* earlier batches deleted stays deleted. A response with per-object errors
\* does not abort: the remaining batches are issued and clear returns.
C6_ClearFailure ==
    LET D == DeleteExchanges
    IN  /\ \A j \in 1..Len(D) :
              /\ D[j].res.error # "none" =>
                    /\ j = Len(D)
                    /\ pc = "returned"
                    /\ result = createError("Error clearing keys with base",
                                            call.key, 1000 * (j - 1))
                    /\ \A m \in 1..(j - 1) : DeletedBy(D[m]) \cap ObjectKeys = {}
              /\ (D[j].res.error = "none" /\ D[j].res.Errors # <<>>) =>
                    \/ j < Len(D)
                    \/ pc = "deleting" /\ 1000 * j < Len(keys)
                    \/ pc = "returned" /\ 1000 * j >= Len(keys)
                          /\ result = Returned(Undefined)
        /\ (/\ pc = "returned" /\ call.op = "clear" /\ Len(D) > 0
            /\ \A j \in 1..Len(D) : D[j].res.error = "none") =>
                /\ Len(D) = (Len(keys) + 999) \div 1000
                /\ result = Returned(Undefined)

C6_Witness ==
    /\ pc = "returned" /\ call.op = "clear"
    /\ Len(DeleteExchanges) = 2
    /\ DeleteExchanges[1].res.error = "none"
    /\ DeleteExchanges[1].res.Errors # <<>>
    /\ DeleteExchanges[2].res.error # "none"
    /\ Len(keys) > 2000
    /\ result.kind = "AdapterError" /\ result.index = 1000
    /\ Len(objects) = Len(before) - 999

\* C7: with bucket configured, getItem and getItemRaw on a key with no
\* object return null, hasItem on it returns false, and for these three a
\* remote failure other than not-found raises an AdapterError.
C7_AbsenceIsSentinel ==
    (pc = "returned" /\ optsBucket # "" /\ call.op \in {"hasItem", "getItem", "getItemRaw"}) =>
        /\ Len(sent) = 1
        /\ sent[1].res.error = "Other" => result.kind = "AdapterError"
        /\ (sent[1].res.error # "Other" /\ ~HasObject(r(call.key))) =>
              result = IF call.op = "hasItem" THEN Returned(BooleanValue(FALSE))
                       ELSE Returned(NullValue)
        /\ (sent[1].res.error # "Other" /\ HasObject(r(call.key))) =>
              /\ result.kind = "ok"
              /\ result.value # NullValue
              /\ result.value # BooleanValue(FALSE)

C7_Witness ==
    /\ pc = "returned" /\ optsBucket # "" /\ call.op = "getItemRaw"
    /\ objects # <<>>
    /\ ~HasObject(r(call.key))
    /\ result = Returned(NullValue)

\* C8: after a successful setItem(k, v) of a text v, and with no later
\* setItem, setItemRaw, removeItem or clear touching the same object key,
\* getItem(k) returns v and hasItem(k) returns true, whatever was done to
\* other keys in between, with or without a prefix.
C8_WriteThenRead ==
    \A w \in written :
        (/\ pc = "returned" /\ call.op \in {"getItem", "hasItem"}
         /\ r(call.key) = w[1] /\ sent[1].res.error # "Other") =>
            result = IF call.op = "getItem" THEN Returned(StringValue(w[2]))
                     ELSE Returned(BooleanValue(TRUE))

C8_Witness ==
    /\ pc = "returned" /\ call.op = "getItem"
    /\ Cardinality(written) = 2
    /\ Len(objects) = 4
    /\ \E w \in written : r(call.key) = w[1] /\ result = Returned(StringValue(w[2]))

\* the pagination protocol of getKeys, as far as the requests sent so far
C9_Protocol ==
    LET L == ListExchanges
    IN  /\ Len(L) > 0 => L[1].req.ContinuationToken = <<>>
        /\ \A j \in 2..Len(L) :
              /\ L[j - 1].res.error = "none"
              /\ L[j - 1].res.NextContinuationToken # <<>>
              /\ L[j].req.ContinuationToken = L[j - 1].res.NextContinuationToken
        /\ (pc = "listing" /\ Len(L) > 0) =>
              /\ L[Len(L)].res.error = "none"
              /\ L[Len(L)].res.NextContinuationToken # <<>>
        /\ (pc = "returned" /\ call.op = "getKeys") =>
              /\ Len(L) > 0
              /\ IF L[Len(L)].res.error = "none"
                 THEN /\ L[Len(L)].res.NextContinuationToken = <<>>
                      /\ result = Returned(KeysValue(ConcatPages(L)))
                      /\ Len(ConcatPages(L)) =
                            Cardinality({j \in 1..Len(objects) :
                                /\ StartsWith(objects[j].Key, r(call.key))
                                /\ rPrefix(objects[j].Key) # <<>>})
                 ELSE result = createError("Error listing keys with base", r(call.key), -1)

\* C9: listing requests go one at a time, the first without a token and
\* each later one with the token of the response before it; the loop ends
\* at the first response without a token and returns the gathered keys, so
\* getKeys ends; a failed page makes getKeys raise an AdapterError, send
\* nothing more and return no keys.
C9_Pagination == [](C9_Protocol) /\ ((pc = "listing") ~> (pc # "listing"))

C9_Witness ==
    /\ pc = "returned" /\ call.op = "getKeys" /\ result.kind = "ok"
    /\ Len(ListExchanges) = 3
    /\ Len(result.value.keys) = 4

====
